---- MODULE Spec2Model ----
(***************************************************************************)
(* Generative asset pipeline of the AI RPG asset factory: the admission    *)
(* gate (GeneratorTabs), the generation handlers of the character and game *)
(* assembler tabs, Flash of Inspiration (App) and the IndexedDB asset      *)
(* store (geminiService).                                                  *)
(***************************************************************************)
EXTENDS Integers, Sequences, FiniteSets, TLC

(***************************************************************************)
(* Bounds of the model.                                                    *)
(***************************************************************************)
\* number of add requests that reach the store in one session
MaxAdds == 3
\* largest value the wall clock (Date.now()) takes
MaxClock == 1

\* results the application saves in one run of the model
MaxSaves == 1

(***************************************************************************)
(* Values.                                                                 *)
(***************************************************************************)
\* the value of a React state that holds null
Null == "null"

\* asset categories (AssetRecord.type) used by the modelled tabs
Categories == {"character", "monster", "item", "game-plan"}

\* image payloads the provider returns (data URLs)
Images == {"imgA"}

\* design documents the provider returns (parsed JSON)
Plans == {"planA"}

\* text the user typed; "" is the empty text box
PromptInputs == {"", "knight"}

\* the prompt stored with an adjusted artifact:
\* `已调整: ${adjustmentPrompt} (原始: ${prompt})`
AdjustedPrompt(p) == IF p = "knight" THEN "adjusted: knight" ELSE "adjusted"

VARIABLES
  assets,        \* object store 'generated_assets', in primary-key order
  keyGen,        \* the store's key generator (autoIncrement): last key issued
  now,           \* Date.now()
  storeRet,      \* the last call made on the store's interface and its result
  added,         \* history: every record ever persisted
  deleted,       \* history: issued ids whose deleteAsset resolved
  isApiLocked,   \* GeneratorTabs: the gate
  pc,            \* where each handler's run stands
  calls,         \* provider calls issued by each handler's latest run
  local,         \* the provider result a run holds while it saves it
  uiEvent,       \* how the latest step's trigger, if it was one, was received
  cg,            \* CharacterGenerator's state
  ga,            \* GameAssembler's state
  app,           \* App's state
  boot,          \* startup: the module's db handle, the engine, the page shown
  svcCall        \* a service function applied to an input, and what came of it

storeVars == <<assets, keyGen, storeRet, added, deleted>>

uiVars == <<isApiLocked, pc, calls, local, uiEvent, cg, ga, app>>

vars == <<assets, keyGen, now, storeRet, added, deleted,
          isApiLocked, pc, calls, local, uiEvent, cg, ga, app, boot, svcCall>>

(***************************************************************************)
(* Asset store (IndexedDB).                                                *)
(***************************************************************************)
Range(s) == {s[i] : i \in 1 .. Len(s)}

Ids(s) == {s[i].id : i \in 1 .. Len(s)}

\* AssetRecord
Record(id, type, prompt, imageDataUrl, timestamp) ==
  [id |-> id, type |-> type, prompt |-> prompt,
   imageDataUrl |-> imageDataUrl, timestamp |-> timestamp]

\* what a store call reports back
Ret(op, type, id, fault, err, list) ==
  [op |-> op, type |-> type, id |-> id, fault |-> fault, err |-> err, list |-> list]

\* Array.prototype.sort((a, b) => b.timestamp - a.timestamp): a stable sort,
\* so records with equal timestamps keep the order the engine returned them in
InsertDesc(r, s) ==
  LET before == {i \in 1 .. Len(s) : s[i].timestamp >= r.timestamp}
      k == Cardinality(before)
  IN  SubSeq(s, 1, k) \o <<r>> \o SubSeq(s, k + 1, Len(s))

RECURSIVE SortByTimestampDesc(_)
SortByTimestampDesc(s) ==
  IF s = <<>> THEN <<>>
  ELSE InsertDesc(s[Len(s)], SortByTimestampDesc(SubSeq(s, 1, Len(s) - 1)))

\* index('type').getAll(type): the records of the type, in primary-key order
IndexGetAll(s, type) == SelectSeq(s, LAMBDA r : r.type = type)

\* getAssetsByType: the list the promise resolves with
getAssetsByType(s, type) == SortByTimestampDesc(IndexGetAll(s, type))

\* getAllAssets: the list the promise resolves with
getAllAssets(s) == SortByTimestampDesc(s)

\* a mutant of NextKey: the key is the number of records held plus one
NextKeyFromCount(s, k) == Len(s) + 1

\* the key the autoIncrement key generator issues next
NextKey(s, k) == k + 1

\* a mutant of StoreAddRecord: the record is written over the latest record
\* of its type, under that record's key
StoreWriteOver(s, rec) ==
  LET same == {i \in 1 .. Len(s) : s[i].type = rec.type}
      last == CHOOSE i \in same : \A j \in same : j <= i
  IN  IF same = {} THEN Append(s, rec)
      ELSE [s EXCEPT ![last] = [rec EXCEPT !.id = s[last].id]]

\* store.add(record): the object store after the request
StoreAddRecord(s, rec) == Append(s, rec)

\* the record addAsset hands to store.add, with the key the store gives it
addAssetRecord(s, k, type, prompt, imageDataUrl, ts) ==
  Record(NextKey(s, k), type, prompt, imageDataUrl, ts)

\* an id that is no number: undefined, null or NaN
NoId == -1

\* `!id`
IsFalsy(id) == id = 0 \/ id = NoId

\* a mutant of StoreDelete: the request removes a key range, not a key
StoreDeleteUpTo(s, id) ==
  IF id = NoId
  THEN [assets |-> s, err |-> "DataError"]
  ELSE [assets |-> SelectSeq(s, LAMBDA r : r.id > id), err |-> "none"]

\* store.delete(id): the store afterwards and the request's error; a value
\* that is no valid key makes the call throw
StoreDelete(s, id) ==
  IF id = NoId
  THEN [assets |-> s, err |-> "DataError"]
  ELSE [assets |-> SelectSeq(s, LAMBDA r : r.id # id), err |-> "none"]

\* a mutant of deleteAsset: the guard on a falsy id is missing
deleteAssetUnguarded(s, id) == StoreDelete(s, id)

\* deleteAsset: `if (!id) return;` then store.delete(id)
deleteAsset(s, id) ==
  IF IsFalsy(id) THEN [assets |-> s, err |-> "none"] ELSE StoreDelete(s, id)

(***************************************************************************)
(* Store operations as steps.  fault is the engine failing the request     *)
(* (request.onerror).                                                      *)
(***************************************************************************)
\* records persisted in earlier sessions: one of each type Flash of
\* Inspiration looks for, with keys 1..3 and timestamps before this session
SeedAssets ==
  << Record(1, "character", "knight", "imgA", -3),
     Record(2, "monster", "goblin", "imgA", -2),
     Record(3, "item", "potion", "imgB", -1) >>

\* the key generator's value when the session starts
SeedKey == Len(SeedAssets)

\* the model serves MaxAdds add requests per session
AddsLeft(first) == keyGen < first + MaxAdds

\* addAsset
DoAddAsset(type, prompt, imageDataUrl, fault) ==
  IF fault
  THEN /\ storeRet' = Ret("add", type, 0, TRUE, "dbAddAssetError", <<>>)
       /\ UNCHANGED <<assets, keyGen, added, deleted>>
  ELSE LET rec == addAssetRecord(assets, keyGen, type, prompt, imageDataUrl, now)
       IN  /\ assets' = StoreAddRecord(assets, rec)
           /\ keyGen' = rec.id
           /\ added' = added \cup {rec}
           /\ storeRet' = Ret("add", type, rec.id, FALSE, "none", <<>>)
           /\ UNCHANGED deleted

\* getAssetsByType
DoGetAssetsByType(type, fault) ==
  /\ storeRet' = IF fault
                 THEN Ret("list", type, 0, TRUE, "dbGetAssetsError", <<>>)
                 ELSE Ret("list", type, 0, FALSE, "none", getAssetsByType(assets, type))
  /\ UNCHANGED <<assets, keyGen, added, deleted>>

\* getAllAssets
DoGetAllAssets(fault) ==
  /\ storeRet' = IF fault
                 THEN Ret("listAll", "", 0, TRUE, "dbGetAllAssetsError", <<>>)
                 ELSE Ret("listAll", "", 0, FALSE, "none", getAllAssets(assets))
  /\ UNCHANGED <<assets, keyGen, added, deleted>>

\* deleteAsset as a step; the engine can fail a request that reached it
DoDeleteAsset(id, fault) ==
  LET res == deleteAsset(assets, id)
  IN  IF ~IsFalsy(id) /\ fault
      THEN /\ storeRet' = Ret("delete", "", id, TRUE, "dbDeleteAssetError", <<>>)
           /\ UNCHANGED <<assets, keyGen, added, deleted>>
      ELSE /\ assets' = res.assets
           /\ deleted' = IF res.err = "none"
                         THEN deleted \cup ({id} \cap {r.id : r \in added})
                         ELSE deleted
           /\ storeRet' = Ret("delete", "", id, FALSE, res.err, <<>>)
           /\ UNCHANGED <<keyGen, added>>

\* the wall clock advances
Tick ==
  /\ now < MaxClock
  /\ now' = now + 1
  /\ UNCHANGED <<assets, keyGen, storeRet, added, deleted>>
  /\ uiEvent' = "none"
  /\ UNCHANGED <<isApiLocked, pc, calls, local, cg, ga, app, boot, svcCall>>

(***************************************************************************)
(* What a store step leaves behind, without the interface's report.        *)
(***************************************************************************)
PersistAdd(type, prompt, imageDataUrl) ==
  LET rec == addAssetRecord(assets, keyGen, type, prompt, imageDataUrl, now)
  IN  /\ assets' = StoreAddRecord(assets, rec)
      /\ keyGen' = rec.id
      /\ added' = added \cup {rec}
      /\ UNCHANGED deleted

PersistDelete(id) ==
  LET res == deleteAsset(assets, id)
  IN  /\ assets' = res.assets
      /\ deleted' = IF res.err = "none"
                    THEN deleted \cup ({id} \cap {r.id : r \in added})
                    ELSE deleted
      /\ UNCHANGED <<keyGen, added>>

(***************************************************************************)
(* Error classifier: the message key handleApiError throws for a raw       *)
(* failure.  Every throw inside its try block lands in its own catch,      *)
(* which decides on the raw message alone.                                 *)
(***************************************************************************)
\* A raw failure, by what the classifier can observe of it: whether it is
\* an Error; whether its message contains the key-missing sentence, the
\* billed-users sentence, the digits 429, the text RESOURCE_EXHAUSTED;
\* whether the message is no JSON ("text"), JSON with an error member
\* ("envelope") or other JSON ("json"); the envelope's error.code and the
\* value's own status property ("429", "500" or "none"); and the envelope's
\* error.message ("": none).
RawFailure(isError, keyMsg, billedMsg, body, code, envMsg, has429, hasExhausted, status) ==
  [isError |-> isError, keyMsg |-> keyMsg, billedMsg |-> billedMsg,
   body |-> body, code |-> code, envMsg |-> envMsg,
   has429 |-> has429, hasExhausted |-> hasExhausted, status |-> status]

\* the HTTP status of a rate-limited request
TooManyRequests == "429"

\* the HTTP status of another failed request
ServerError == "500"

\* the SDK's error for a rate-limited request: its message is the JSON body
RawQuota ==
  RawFailure(TRUE, FALSE, FALSE, "envelope", TooManyRequests, "quota exceeded",
             TRUE, TRUE, TooManyRequests)

\* the SDK's error for a request that failed otherwise
RawOther ==
  RawFailure(TRUE, FALSE, FALSE, "envelope", ServerError, "internal error",
             FALSE, FALSE, ServerError)

\* the failures the provider answers a handler's call with
RawFailures == {RawQuota, RawOther}

\* an error as thrown: its message key and the text the message carries
Thrown(key, detail) == [key |-> key, detail |-> detail]

\* the try block: JSON.parse(error.message) and the throws that follow it
TryParsed(e) ==
  IF e.body = "text" THEN Thrown("SyntaxError", "none")
  ELSE IF e.body = "envelope" /\ e.code = TooManyRequests
  THEN Thrown("rateLimitError", "none")
  ELSE Thrown("geminiApiError",
              IF e.body = "envelope" /\ e.envMsg # ""
              THEN "envelopeMessage" ELSE "rawMessage")

\* a mutant of CatchRaw: every failure that reaches the catch block is taken
\* for a rate limit
CatchRawAllLimited(e, thrown) == Thrown("rateLimitError", "none")

\* a mutant of CatchRaw: the catch block does not search the raw message
CatchRawNoSearch(e, thrown) == Thrown("geminiApiError", "rawMessage")

\* the catch block, which receives whatever the try block threw and decides
\* on the raw message alone
CatchRaw(e, thrown) ==
  IF e.has429 \/ e.hasExhausted
  THEN Thrown("rateLimitError", "none")
  ELSE Thrown("geminiApiError", "rawMessage")

\* a mutant of handleApiError: a value that is no Error is let through
handleApiErrorLenient(e) ==
  IF ~e.isError THEN Thrown("returned", "none")
  ELSE IF e.keyMsg THEN Thrown("apiKeyNotSet", "rawMessage")
  ELSE IF e.billedMsg THEN Thrown("imagenBilledOnlyError", "none")
  ELSE CatchRaw(e, TryParsed(e))

\* handleApiError: the error it throws
handleApiError(e) ==
  IF ~e.isError THEN Thrown("unknownGenerationError", "none")
  ELSE IF e.keyMsg THEN Thrown("apiKeyNotSet", "rawMessage")
  ELSE IF e.billedMsg THEN Thrown("imagenBilledOnlyError", "none")
  ELSE CatchRaw(e, TryParsed(e))

(***************************************************************************)
(* Service functions, from the provider's answer or the composed request   *)
(* on.                                                                     *)
(***************************************************************************)
\* an Error the service made itself: its message is a sentence, no JSON,
\* with none of the texts the classifier looks for
PlainError == RawFailure(TRUE, FALSE, FALSE, "text", "none", "", FALSE, FALSE, "none")

\* safety ratings of a response candidate
SafetyCategories == {"HARASSMENT", "DANGEROUS_CONTENT"}

SafetyProbabilities == {"NEGLIGIBLE", "LOW", "MEDIUM", "HIGH"}

\* provider responses to a transform request: whether a part carries image
\* data, the candidate's finish reason, its rating per category ("absent":
\* none), whether a part carries text
Responses ==
  [hasImage : BOOLEAN, finishReason : {"STOP", "SAFETY"},
   ratings : [SafetyCategories -> SafetyProbabilities \cup {"absent"}],
   hasText : BOOLEAN]

\* safetyRatings.filter(r => r.probability !== 'NEGLIGIBLE' && r.probability !== 'LOW')
FlaggedRatings(resp) ==
  {<<c, resp.ratings[c]>> : c \in {k \in SafetyCategories :
                                    resp.ratings[k] \in {"MEDIUM", "HIGH"}}}

\* what the try block throws for a response without image data
ThrownForNoImage(resp) ==
  IF resp.finishReason = "SAFETY"
  THEN [key |-> "safetyRejection", ratings |-> FlaggedRatings(resp)]
  ELSE [key |-> IF resp.hasText THEN "refusalText" ELSE "apiRefusalError",
        ratings |-> {}]

\* generateAssetFromImage once the provider has answered: the data URL it
\* returns, or the error its catch block's handleApiError throws and the
\* error that one was made from
generateAssetFromImage(resp) ==
  IF resp.hasImage
  THEN [returned |-> TRUE, value |-> "dataUrl"]
  ELSE [returned |-> FALSE, thrown |-> handleApiError(PlainError),
        inner |-> ThrownForNoImage(resp)]

\* text the provider returns in structured-text mode
StructuredTexts == {"validJson", "invalidJson"}

StructuredFns ==
  {"generateSkillDesign", "generateStatsDesign", "generateGamePlan", "adjustGamePlan"}

\* the functions that end with `return JSON.parse(response.text)`
ParsingFns == {"generateGamePlan", "adjustGamePlan"}

\* a structured-text function once the provider has answered
StructuredResult(fn, text) ==
  IF fn \in ParsingFns
  THEN IF text = "validJson"
       THEN [returned |-> TRUE, value |-> "parsed"]
       ELSE [returned |-> FALSE, thrown |-> handleApiError(PlainError),
             inner |-> [key |-> "SyntaxError", ratings |-> {}]]
  ELSE [returned |-> TRUE, value |-> text]

\* a reference given to synthesizeCharacterFromParts: none, a data URL that
\* parseDataUrl accepts, or a string it does not
RefStates == {"absent", "usable", "unusable"}

PartsInputs == [{"head", "pose", "clothes"} -> RefStates]

\* one `if (parts.x) { ... }` block of synthesizeCharacterFromParts
AddPart(acc, parts, aspect) ==
  IF parts[aspect] = "absent" THEN acc
  ELSE [statements |-> Append(acc.statements,
                              [image |-> acc.imageCounter, aspect |-> aspect]),
        contentParts |-> IF parts[aspect] = "usable"
                         THEN Append(acc.contentParts, aspect)
                         ELSE acc.contentParts,
        imageCounter |-> acc.imageCounter + 1]

\* synthesizeCharacterFromParts up to the provider call: the request it
\* composes (the role statements of the prompt, whether the prompt tells to
\* invent what no image is given for, the images attached after the text), or
\* the error it throws
synthesizeCharacterFromParts(parts) ==
  LET start == [statements |-> <<>>, contentParts |-> <<>>, imageCounter |-> 1]
      acc == AddPart(AddPart(AddPart(start, parts, "head"), parts, "pose"),
                     parts, "clothes")
  IN  IF acc.contentParts = <<>>
      THEN [composed |-> FALSE, thrown |-> "atLeastOneRefImage"]
      ELSE [composed |-> TRUE, statements |-> acc.statements,
            inventMissing |-> TRUE, images |-> acc.contentParts]

\* bound on the assets handed to generateConceptArtFromAssets
MaxRefs == 2

\* the two kinds of part of a request's `contents.parts`
ImagePart(role) == [kind |-> "image", role |-> role]

TextPart == [kind |-> "text", role |-> "instruction"]

\* a composed request, or the error thrown instead of composing one
Composed(parts) == [composed |-> TRUE, parts |-> parts]

NotComposed(key) == [composed |-> FALSE, thrown |-> key]

\* the `parts` literal of generateAssetFromImage: the image, then the prompt
generateAssetFromImageParts(main) ==
  IF main # "usable" THEN NotComposed("invalidBase64Data")
  ELSE Composed(<<ImagePart("main"), TextPart>>)

\* the `parts` of optimizeCharacterImage: the main image, the style reference
\* if one is given and parses, then parts.push({ text: masterPrompt })
optimizeCharacterImageParts(main, reference) ==
  IF main # "usable" THEN NotComposed("invalidMainImageData")
  ELSE Composed(<<ImagePart("main")>>
                \o (IF reference = "usable" THEN <<ImagePart("reference")>> ELSE <<>>)
                \o <<TextPart>>)

\* the `contentParts` of synthesizeCharacterFromParts after
\* contentParts.unshift({ text: masterPrompt })
synthesizeCharacterFromPartsParts(parts) ==
  IF ~synthesizeCharacterFromParts(parts).composed
  THEN NotComposed(synthesizeCharacterFromParts(parts).thrown)
  ELSE Composed(<<TextPart>>
                \o [k \in 1 .. Len(synthesizeCharacterFromParts(parts).images) |->
                      ImagePart(synthesizeCharacterFromParts(parts).images[k])])

\* the records handed to generateConceptArtFromAssets: which record, and
\* whether its imageDataUrl parses
ConceptAssets == [id : {"assetA", "assetB"}, ref : {"usable", "unusable"}]

RECURSIVE PushUsable(_, _)
\* the loop `for (const asset of assets)` of generateConceptArtFromAssets
PushUsable(parts, list) ==
  IF list = <<>> THEN parts
  ELSE PushUsable(IF Head(list).ref = "usable"
                  THEN Append(parts, ImagePart(Head(list).id))
                  ELSE parts,
                  Tail(list))

\* the `parts` of generateConceptArtFromAssets: the prompt first, then the
\* images
generateConceptArtFromAssetsParts(list) ==
  IF Len(PushUsable(<<TextPart>>, list)) <= 1
  THEN NotComposed("noValidAssetImages")
  ELSE Composed(PushUsable(<<TextPart>>, list))

\* a prompt is a sequence of segments: the user's text, quoted, or a
\* sentence of the template that fixes one field of the output
UserSegment(text) == [kind |-> "user", field |-> "request", value |-> text]

Clause(field, value) == [kind |-> "template", field |-> field, value |-> value]

\* a request: its prompt and the aspectRatio of its config
Request(prompt, aspectRatio) == [prompt |-> prompt, aspectRatio |-> aspectRatio]

\* the texts a user may type, one of them asking for another size
UserTexts == PromptInputs \cup {"make every frame 64x64"}

\* generateWalkingSpriteFromImage: the prompt has no user text
generateWalkingSpriteFromImage(userPrompt) ==
  Request(<<Clause("transparent", "yes"), Clause("grid", "3x4"),
            Clause("frame", "48x48"), Clause("total", "144x192")>>, "none")

\* generateFacesetFromImage: the prompt has no user text
generateFacesetFromImage(userPrompt) ==
  Request(<<Clause("total", "144x144"), Clause("transparent", "yes")>>, "none")

\* a mutant of generateCombatEffect: the frame size is taken from the
\* user's text when it names one
generateCombatEffectAsAsked(userPrompt) ==
  Request(<<UserSegment(userPrompt), Clause("transparent", "yes"),
            Clause("frames", "5"), Clause("layout", "one row"),
            Clause("frame", IF userPrompt = "make every frame 64x64"
                            THEN "64x64" ELSE "192x192"),
            Clause("total", "960x192")>>, "none")

\* generateCombatEffect: the user's text, then the fixed instructions
generateCombatEffect(userPrompt) ==
  Request(<<UserSegment(userPrompt), Clause("transparent", "yes"),
            Clause("frames", "5"), Clause("layout", "one row"),
            Clause("frame", "192x192"), Clause("total", "960x192")>>, "none")

\* generateGameConceptArt: the user's text, the fixed instructions, and the
\* aspectRatio of the config
generateGameConceptArt(userPrompt) ==
  Request(<<UserSegment(userPrompt), Clause("aspect", "16:9")>>, "16:9")

\* the categories with a pixel contract and the function of each
ContractCategories == {"walking", "faceset", "combatEffect", "conceptArt"}

ComposeFor(category, userPrompt) ==
  CASE category = "walking" -> generateWalkingSpriteFromImage(userPrompt)
    [] category = "faceset" -> generateFacesetFromImage(userPrompt)
    [] category = "combatEffect" -> generateCombatEffect(userPrompt)
    [] category = "conceptArt" -> generateGameConceptArt(userPrompt)

(***************************************************************************)
(* Generation gate (GeneratorTabs).                                        *)
(***************************************************************************)
\* lockApi = () => setIsApiLocked(true)
lockApi == TRUE

\* unlockApi = () => setIsApiLocked(false)
unlockApi == FALSE

\* a mutant of GateAfterExit: unlockApi is called at the end of the try
\* block, not in a finally block
GateAfterReturnOnly(how) == IF how = "returned" THEN unlockApi ELSE isApiLocked

\* the gate after a handler's finally block, however its try block ended
\* ("returned" or "threw")
GateAfterExit(how) == unlockApi

(***************************************************************************)
(* Handlers.                                                               *)
(***************************************************************************)
\* handleGenerateBaseCharacter, handleAdjustBaseCharacter, handleGenerateAsset
\* (for the walking sprite) of CharacterGenerator; handleGenerate and
\* handleAdjust of GameAssembler
GatedHandlers ==
  {"generateBase", "adjustBase", "generateAsset", "generatePlan", "adjustPlan"}

CgHandlers == {"generateBase", "adjustBase", "generateAsset", "synthesize"}

\* handleSynthesizeCharacter of the character tab's synthesis mode
SynthHandlers == {"synthesize"}

\* handleFlashOfInspiration of App
Handlers == GatedHandlers \cup {"flash"} \cup SynthHandlers

\* the handlers that save their result with addAsset
Saves(h) == h \in {"generateBase", "adjustBase", "generatePlan", "adjustPlan", "synthesize"}

SavedType(h) == IF h \in CgHandlers THEN "character" ELSE "game-plan"

\* the prompt saved with the result; the model's one non-empty text is "knight"
SavedPrompt(h) ==
  IF h \in {"adjustBase", "adjustPlan"} THEN AdjustedPrompt("knight") ELSE "knight"

\* what the provider can return to a handler
Payloads(h) == IF h \in CgHandlers THEN Images ELSE Plans

\* the asset slots '主角', '反派', '关键物品' and the type each one takes
AssetSlots == {"hero", "villain", "keyItem"}

ASSET_SLOT_CONFIG == [hero |-> "character", villain |-> "monster", keyItem |-> "item"]

\* an absent record (undefined)
NoRecord == Record(0, "", "", "", 0)

NoAssets == [heroAsset |-> NoRecord, villainAsset |-> NoRecord, itemAsset |-> NoRecord]

\* a mutant of Find: the first record, whatever its type
FindFirst(list, type) == IF list = <<>> THEN NoRecord ELSE list[1]

\* allAssets.find(a => a.type === type)
Find(list, type) ==
  LET idx == {i \in 1 .. Len(list) : list[i].type = type}
  IN  IF idx = {} THEN NoRecord
      ELSE list[CHOOSE i \in idx : \A j \in idx : i <= j]

\* the handler's own conditions for going on, the gate aside
Ready(h, text) ==
  CASE h = "generateBase" -> text # ""
    [] h = "adjustBase" -> text # "" /\ cg.baseImage # Null
    [] h = "generateAsset" -> cg.baseImage # Null
    [] h = "generatePlan" ->
         text # "" /\ \A slot \in AssetSlots : ga.selectedAssets[slot] # NoRecord
    [] h = "adjustPlan" -> text # "" /\ ga.gameBlueprint # Null
    [] h = "synthesize" ->
         text # "" /\ \E a \in DOMAIN cg.refs : cg.refs[a] # "absent"

\* a mutant of Admit: the handler does not look at the gate
AdmitIgnoringGate(h, text) == Ready(h, text)

\* the guard `if (... || apiLock.isApiLocked) return;`
Admit(h, text) == Ready(h, text) /\ ~isApiLocked

\* the error a service function throws before it sends a request, Null if
\* it sends one: synthesizeCharacterFromParts throws when it could attach no
\* image, and getAiClient() throws when no key is set
ServiceError(h) ==
  IF h = "synthesize" /\ ~synthesizeCharacterFromParts(cg.refs).composed
  THEN synthesizeCharacterFromParts(cg.refs).thrown
  ELSE IF ~app.hasApiKey THEN "apiKeyNotSet"
  ELSE Null

ServiceThrows(h) == ServiceError(h) # Null

\* component state when a run starts
CgStart(h) ==
  CASE h \in {"generateBase", "synthesize"} ->
         [cg EXCEPT !.isGeneratingBase = TRUE, !.baseError = Null, !.baseImage = Null]
    [] h = "adjustBase" -> [cg EXCEPT !.isAdjusting = TRUE, !.baseError = Null]
    [] h = "generateAsset" ->
         [cg EXCEPT !.walkingSprite = [@ EXCEPT !.isLoading = TRUE, !.error = Null]]
    [] OTHER -> cg

GaStart(h) ==
  CASE h = "generatePlan" ->
         [ga EXCEPT !.isLoading = TRUE, !.error = Null, !.gameBlueprint = Null]
    [] h = "adjustPlan" -> [ga EXCEPT !.isAdjusting = TRUE, !.error = Null]
    [] OTHER -> ga

\* component state when the service returned payload
CgResult(h, c, payload) ==
  CASE h \in {"generateBase", "adjustBase", "synthesize"} ->
         [c EXCEPT !.baseImage = payload]
    [] h = "generateAsset" ->
         [c EXCEPT !.walkingSprite = [image |-> payload, isLoading |-> FALSE, error |-> Null]]
    [] OTHER -> c

GaResult(h, g, payload) ==
  IF h \in {"generatePlan", "adjustPlan"} THEN [g EXCEPT !.gameBlueprint = payload] ELSE g

\* component state after the catch block
CgError(h, c, msg) ==
  CASE h \in {"generateBase", "adjustBase", "synthesize"} ->
         [c EXCEPT !.baseError = msg]
    [] h = "generateAsset" ->
         [c EXCEPT !.walkingSprite = [image |-> Null, isLoading |-> FALSE, error |-> msg]]
    [] OTHER -> c

GaError(h, g, msg) ==
  IF h \in {"generatePlan", "adjustPlan"} THEN [g EXCEPT !.error = msg] ELSE g

\* component state after the finally block
CgFinally(h, c) ==
  CASE h \in {"generateBase", "synthesize"} -> [c EXCEPT !.isGeneratingBase = FALSE]
    [] h = "adjustBase" -> [c EXCEPT !.isAdjusting = FALSE]
    [] OTHER -> c

GaFinally(h, g) ==
  CASE h = "generatePlan" -> [g EXCEPT !.isLoading = FALSE]
    [] h = "adjustPlan" -> [g EXCEPT !.isAdjusting = FALSE]
    [] OTHER -> g

\* loadHistory() of each component
CgLoadHistory(h, c, s) ==
  IF h \in CgHandlers THEN [c EXCEPT !.history = getAssetsByType(s, "character")] ELSE c

GaLoadHistory(h, g, s) ==
  IF h \in CgHandlers THEN g ELSE [g EXCEPT !.history = getAssetsByType(s, "game-plan")]

\* a mutant of AfterRefusal: the refused trigger is shown as a failure
AfterRefusalWithError(h) ==
  /\ cg' = [cg EXCEPT !.baseError = "busy"]
  /\ UNCHANGED <<isApiLocked, pc, calls, local, ga, app>>

\* the early `return;` of a handler whose guard failed
AfterRefusal(h) == UNCHANGED <<isApiLocked, pc, calls, local, cg, ga, app>>

\* a mutant of Retries: a rate-limited call is sent again
RetriesRateLimited(raw) == handleApiError(raw).key = "rateLimitError"

\* whether a catch block sends the request again: none does
Retries(raw) == FALSE

\* the click on a handler's button
Trigger(h) ==
  /\ Saves(h) => keyGen < SeedKey + MaxSaves
  /\ \E text \in PromptInputs :
       IF Admit(h, text)
       THEN /\ isApiLocked' = lockApi
            /\ cg' = CgStart(h)
            /\ ga' = GaStart(h)
            /\ pc' = [pc EXCEPT ![h] = IF ServiceThrows(h) THEN "threw" ELSE "calling"]
            /\ calls' = [calls EXCEPT ![h] = IF ServiceThrows(h) THEN 0 ELSE 1]
            /\ local' = [local EXCEPT ![h] = ServiceError(h)]
            /\ uiEvent' = "admitted"
            /\ UNCHANGED app
       ELSE /\ AfterRefusal(h)
            /\ uiEvent' = IF Ready(h, text) THEN "busy" ELSE "ignored"
  /\ UNCHANGED <<storeVars, now, boot, svcCall>>

\* the handler leaves: its finally block has run
Leave(h, how) ==
  /\ pc' = [pc EXCEPT ![h] = "idle"]
  /\ calls' = [calls EXCEPT ![h] = 0]
  /\ local' = [local EXCEPT ![h] = Null]
  /\ isApiLocked' = GateAfterExit(how)

\* the service function threw before it sent a request
ServiceThrew(h) ==
  /\ pc[h] = "threw"
  /\ cg' = CgFinally(h, CgError(h, cg, local[h]))
  /\ ga' = GaFinally(h, GaError(h, ga, local[h]))
  /\ Leave(h, "threw")
  /\ uiEvent' = "none"
  /\ UNCHANGED <<app, storeVars, now, boot, svcCall>>

\* the provider answered with a payload
ProviderReturned(h) ==
  /\ pc[h] = "calling"
  /\ \E payload \in Payloads(h) :
       IF Saves(h)
       THEN /\ cg' = CgResult(h, cg, payload)
            /\ ga' = GaResult(h, ga, payload)
            /\ pc' = [pc EXCEPT ![h] = "saving"]
            /\ local' = [local EXCEPT ![h] = payload]
            /\ UNCHANGED <<isApiLocked, calls>>
       ELSE /\ cg' = CgFinally(h, CgResult(h, cg, payload))
            /\ ga' = GaFinally(h, GaResult(h, ga, payload))
            /\ Leave(h, "returned")
  /\ uiEvent' = "none"
  /\ UNCHANGED <<app, storeVars, now, boot, svcCall>>

\* the provider call failed: handleApiError throws, the handler catches
ProviderFailed(h) ==
  /\ pc[h] = "calling"
  /\ \E raw \in RawFailures :
       IF Retries(raw)
       THEN /\ calls' = [calls EXCEPT ![h] = @ + 1]
            /\ UNCHANGED <<pc, isApiLocked, local, cg, ga>>
       ELSE /\ cg' = CgFinally(h, CgError(h, cg, handleApiError(raw).key))
            /\ ga' = GaFinally(h, GaError(h, ga, handleApiError(raw).key))
            /\ Leave(h, "threw")
  /\ uiEvent' = "none"
  /\ UNCHANGED <<app, storeVars, now, boot, svcCall>>

\* addAsset settled: the record is stored and the history reloaded, or the
\* promise was rejected with a string, which the catch block shows as the
\* unknown error
StoreReturned(h) ==
  /\ pc[h] = "saving"
  /\ \E fault \in BOOLEAN :
       IF fault
       THEN /\ cg' = CgFinally(h, CgError(h, cg, "unknownError"))
            /\ ga' = GaFinally(h, GaError(h, ga, "unknownError"))
            /\ Leave(h, "threw")
            /\ UNCHANGED <<assets, keyGen, added, deleted>>
       ELSE /\ PersistAdd(SavedType(h), SavedPrompt(h), local[h])
            /\ cg' = CgFinally(h, CgLoadHistory(h, cg, assets'))
            /\ ga' = GaFinally(h, GaLoadHistory(h, ga, assets'))
            /\ Leave(h, "returned")
  /\ uiEvent' = "none"
  /\ UNCHANGED <<app, storeRet, now, boot, svcCall>>

\* handleFlashOfInspiration up to `await getAllAssets()`; the model runs one
\* Flash of Inspiration at a time
FlashTrigger ==
  /\ pc["flash"] = "idle"
  /\ IF ~app.hasApiKey
     THEN /\ app' = [app EXCEPT !.isApiKeyModalOpen = TRUE]
          /\ UNCHANGED pc
     ELSE /\ app' = [app EXCEPT !.isGeneratingGame = TRUE,
                                !.gameGenerationError = Null,
                                !.inspirationAssets = NoAssets]
          /\ pc' = [pc EXCEPT !["flash"] = "listing"]
  /\ uiEvent' = "ungated"
  /\ UNCHANGED <<isApiLocked, calls, local, cg, ga, storeVars, now, boot, svcCall>>

\* getAllAssets settled.  Rejected (with a string), the catch block shows
\* the unknown error; resolved, without a character, a monster and an item
\* the handler returns, else it calls generateGamePlan
FlashListed ==
  /\ pc["flash"] = "listing"
  /\ \E fault \in BOOLEAN :
       LET allAssets == getAllAssets(assets)
           heroAsset == Find(allAssets, "character")
           villainAsset == Find(allAssets, "monster")
           itemAsset == Find(allAssets, "item")
       IN  IF fault
           THEN /\ app' = [app EXCEPT !.gameGenerationError = "unknownError",
                                      !.isGeneratingGame = FALSE,
                                      !.inspirationAssets = NoAssets]
                /\ pc' = [pc EXCEPT !["flash"] = "idle"]
                /\ calls' = [calls EXCEPT !["flash"] = 0]
           ELSE IF heroAsset = NoRecord \/ villainAsset = NoRecord \/ itemAsset = NoRecord
           THEN /\ app' = [app EXCEPT !.isGeneratingGame = FALSE,
                                      !.inspirationAssets = NoAssets]
                /\ pc' = [pc EXCEPT !["flash"] = "idle"]
                /\ calls' = [calls EXCEPT !["flash"] = 0]
           ELSE /\ app' = [app EXCEPT !.inspirationAssets =
                             [heroAsset |-> heroAsset, villainAsset |-> villainAsset,
                              itemAsset |-> itemAsset]]
                /\ pc' = [pc EXCEPT !["flash"] = "calling"]
                /\ calls' = [calls EXCEPT !["flash"] = 1]
  /\ uiEvent' = IF pc'["flash"] = "idle" THEN "alert" ELSE "none"
  /\ UNCHANGED <<isApiLocked, local, cg, ga, storeVars, now, boot, svcCall>>

\* generateGamePlan settled for Flash of Inspiration
FlashSettled ==
  /\ pc["flash"] = "calling"
  /\ \/ \E plan \in Plans :
          app' = [app EXCEPT !.gamePreviewData =
                               [blueprint |-> plan,
                                heroAsset |-> app.inspirationAssets.heroAsset,
                                villainAsset |-> app.inspirationAssets.villainAsset,
                                itemAsset |-> app.inspirationAssets.itemAsset],
                             !.isGamePreviewOpen = TRUE,
                             !.isGeneratingGame = FALSE,
                             !.inspirationAssets = NoAssets]
     \/ \E raw \in RawFailures :
          app' = [app EXCEPT !.gameGenerationError = handleApiError(raw).key,
                             !.isGeneratingGame = FALSE,
                             !.inspirationAssets = NoAssets]
  /\ pc' = [pc EXCEPT !["flash"] = "idle"]
  /\ calls' = [calls EXCEPT !["flash"] = 0]
  /\ uiEvent' = "none"
  /\ UNCHANGED <<isApiLocked, local, cg, ga, storeVars, now, boot, svcCall>>

\* handleDeleteAsset of CharacterGenerator, on a record its history shows
DeleteCharacter ==
  /\ ~isApiLocked
  /\ \E rec \in Range(cg.history), fault \in BOOLEAN :
       IF fault
       THEN UNCHANGED <<assets, keyGen, added, deleted, cg>>
       ELSE /\ PersistDelete(rec.id)
            /\ cg' = [cg EXCEPT !.history = getAssetsByType(assets', "character")]
  /\ uiEvent' = "none"
  /\ UNCHANGED <<isApiLocked, pc, calls, local, ga, app, storeRet, now, boot, svcCall>>

\* handleSelectAsset of GameAssembler, on a record the slot's modal lists
SelectAsset(slot) ==
  /\ \E rec \in Range(getAssetsByType(assets, ASSET_SLOT_CONFIG[slot])) :
       ga' = [ga EXCEPT !.selectedAssets[slot] = rec]
  /\ uiEvent' = "none"
  /\ UNCHANGED <<isApiLocked, pc, calls, local, cg, app, storeVars, now, boot, svcCall>>

\* handleSaveApiKey of App
SaveApiKey ==
  /\ app.isApiKeyModalOpen
  /\ app' = [app EXCEPT !.hasApiKey = TRUE, !.isApiKeyModalOpen = FALSE]
  /\ uiEvent' = "none"
  /\ UNCHANGED <<isApiLocked, pc, calls, local, cg, ga, storeVars, now, boot, svcCall>>

(***************************************************************************)
(* The application.                                                        *)
(***************************************************************************)
\* index.tsx after initDB() resolved: the handle is kept, <App /> is rendered
Booted == [db |-> "open", engineUp |-> TRUE, page |-> "app"]

\* no service function is under examination
NoCall == [fn |-> "none"]

UiInit ==
  /\ isApiLocked = FALSE
  /\ pc = [h \in Handlers |-> "idle"]
  /\ calls = [h \in Handlers |-> 0]
  /\ local = [h \in Handlers |-> Null]
  /\ uiEvent = "none"
  /\ cg = [baseImage |-> Null, baseError |-> Null,
           isGeneratingBase |-> FALSE, isAdjusting |-> FALSE,
           walkingSprite |-> [image |-> Null, isLoading |-> FALSE, error |-> Null],
           history |-> getAssetsByType(assets, "character"),
           refs |-> [a \in {"head", "pose", "clothes"} |-> "absent"]]
  /\ ga = [selectedAssets |-> [slot \in AssetSlots |-> NoRecord],
           gameBlueprint |-> Null, error |-> Null,
           isLoading |-> FALSE, isAdjusting |-> FALSE,
           history |-> getAssetsByType(assets, "game-plan")]
  /\ \E key \in BOOLEAN :
       app = [hasApiKey |-> key, isApiKeyModalOpen |-> ~key,
              isGeneratingGame |-> FALSE, gameGenerationError |-> Null,
              inspirationAssets |-> NoAssets,
              isGamePreviewOpen |-> FALSE,
              gamePreviewData |-> [blueprint |-> Null, heroAsset |-> NoRecord,
                                   villainAsset |-> NoRecord, itemAsset |-> NoRecord]]

Init ==
  /\ assets = SeedAssets
  /\ keyGen = SeedKey
  /\ now = 0
  /\ storeRet = Ret("none", "", 0, FALSE, "none", <<>>)
  /\ added = Range(SeedAssets)
  /\ deleted = {}
  /\ boot = Booted
  /\ svcCall = NoCall
  /\ UiInit

Next ==
  \/ \E h \in GatedHandlers : Trigger(h)
  \/ \E h \in GatedHandlers : ServiceThrew(h)
  \/ \E h \in GatedHandlers : ProviderReturned(h)
  \/ \E h \in GatedHandlers : ProviderFailed(h)
  \/ \E h \in GatedHandlers : StoreReturned(h)
  \/ FlashTrigger
  \/ FlashListed
  \/ FlashSettled
  \/ DeleteCharacter
  \/ \E slot \in AssetSlots : SelectAsset(slot)
  \/ SaveApiKey

Spec == Init /\ [][Next]_vars

(***************************************************************************)
(* The store driven through its interface alone, from a fresh database.    *)
(***************************************************************************)
StoreCategories == {"character", "monster"}

\* ids handed to deleteAsset: no id at all, 0, every key issued so far and
\* the key not yet issued
DeleteIds == {NoId, 0} \cup (1 .. (keyGen + 1))

StoreInit ==
  /\ assets = <<>>
  /\ keyGen = 0
  /\ now = 0
  /\ storeRet = Ret("none", "", 0, FALSE, "none", <<>>)
  /\ added = {}
  /\ deleted = {}
  /\ boot = Booted
  /\ svcCall = NoCall
  /\ UiInit

StoreAdd ==
  /\ AddsLeft(0)
  /\ \E type \in StoreCategories, fault \in BOOLEAN :
       DoAddAsset(type, "knight", "imgA", fault)
  /\ UNCHANGED <<now, boot, svcCall, uiVars>>

StoreList ==
  /\ \E type \in StoreCategories \cup {"item"}, fault \in BOOLEAN :
       DoGetAssetsByType(type, fault)
  /\ UNCHANGED <<now, boot, svcCall, uiVars>>

StoreListAll ==
  /\ \E fault \in BOOLEAN : DoGetAllAssets(fault)
  /\ UNCHANGED <<now, boot, svcCall, uiVars>>

StoreDeleteById ==
  /\ \E id \in DeleteIds, fault \in BOOLEAN : DoDeleteAsset(id, fault)
  /\ UNCHANGED <<now, boot, svcCall, uiVars>>

StoreNext == StoreAdd \/ StoreList \/ StoreListAll \/ StoreDeleteById \/ Tick

StoreSpec == StoreInit /\ [][StoreNext]_vars

(***************************************************************************)
(* Startup (index.tsx) and the store's functions called from then on, each *)
(* of which begins with `await initDB()`.                                  *)
(***************************************************************************)
\* initDB(): the module's handle afterwards and the rejection, if any; with
\* no handle kept it asks the engine to open the database again
initDB(b) ==
  IF b.db = "open" THEN [db |-> "open", err |-> "none"]
  ELSE IF b.engineUp THEN [db |-> "open", err |-> "none"]
  ELSE [db |-> "unset", err |-> "dbOpenError"]

\* a store function's promise rejected by initDB()
OpenFailed(op, type, id) ==
  /\ storeRet' = Ret(op, type, id, TRUE, "dbOpenError", <<>>)
  /\ UNCHANGED <<assets, keyGen, added, deleted, boot>>

BootInit ==
  /\ assets = <<>>
  /\ keyGen = 0
  /\ now = 0
  /\ storeRet = Ret("none", "", 0, FALSE, "none", <<>>)
  /\ added = {}
  /\ deleted = {}
  /\ \E up \in BOOLEAN : boot = [db |-> "unset", engineUp |-> up, page |-> "none"]
  /\ svcCall = NoCall
  /\ UiInit

\* initDB().then(render <App />).catch(show the error page)
Startup ==
  /\ boot.page = "none"
  /\ LET r == initDB(boot)
     IN  /\ boot' = [boot EXCEPT !.db = r.db,
                                 !.page = IF r.err = "none" THEN "app" ELSE "dbError"]
         /\ storeRet' = Ret("open", "", 0, r.err # "none", r.err, <<>>)
  /\ UNCHANGED <<assets, keyGen, added, deleted, now, svcCall, uiVars>>

\* the browser starts or stops letting the page open the database
EngineChanges ==
  /\ boot.db = "unset"
  /\ boot' = [boot EXCEPT !.engineUp = ~@]
  /\ UNCHANGED <<storeVars, now, svcCall, uiVars>>

BootAdd ==
  /\ boot.page # "none"
  /\ AddsLeft(0)
  /\ \E type \in StoreCategories :
       IF initDB(boot).err # "none"
       THEN OpenFailed("add", type, 0)
       ELSE /\ DoAddAsset(type, "knight", "imgA", FALSE)
            /\ boot' = [boot EXCEPT !.db = "open"]
  /\ UNCHANGED <<now, svcCall, uiVars>>

BootList ==
  /\ boot.page # "none"
  /\ \E type \in StoreCategories :
       IF initDB(boot).err # "none"
       THEN OpenFailed("list", type, 0)
       ELSE /\ DoGetAssetsByType(type, FALSE)
            /\ boot' = [boot EXCEPT !.db = "open"]
  /\ UNCHANGED <<now, svcCall, uiVars>>

BootListAll ==
  /\ boot.page # "none"
  /\ IF initDB(boot).err # "none"
     THEN OpenFailed("listAll", "", 0)
     ELSE /\ DoGetAllAssets(FALSE)
          /\ boot' = [boot EXCEPT !.db = "open"]
  /\ UNCHANGED <<now, svcCall, uiVars>>

\* deleteAsset returns for a falsy id before it reaches initDB()
BootDelete ==
  /\ boot.page # "none"
  /\ \E id \in DeleteIds :
       IF IsFalsy(id)
       THEN DoDeleteAsset(id, FALSE) /\ UNCHANGED boot
       ELSE IF initDB(boot).err # "none"
       THEN OpenFailed("delete", "", id)
       ELSE /\ DoDeleteAsset(id, FALSE)
            /\ boot' = [boot EXCEPT !.db = "open"]
  /\ UNCHANGED <<now, svcCall, uiVars>>

BootNext ==
  \/ Startup
  \/ EngineChanges
  \/ BootAdd
  \/ BootList
  \/ BootListAll
  \/ BootDelete

BootSpec == BootInit /\ [][BootNext]_vars

(***************************************************************************)
(* The service functions applied to inputs drawn from small sets.          *)
(***************************************************************************)
\* raw failures handed to the classifier: every combination of what it can
\* observe, where a message that is no envelope has no code and no envelope
\* message, and an envelope with code 429 has the digits 429 in its text
RawFailureInputs ==
  {e \in [isError : BOOLEAN, keyMsg : BOOLEAN, billedMsg : BOOLEAN,
          body : {"text", "envelope", "json"},
          code : {"none", TooManyRequests, ServerError},
          envMsg : {"", "internal error"},
          has429 : BOOLEAN, hasExhausted : BOOLEAN,
          status : {"none", TooManyRequests}] :
     /\ e.body # "envelope" => e.code = "none" /\ e.envMsg = ""
     /\ (e.body = "envelope" /\ e.code = TooManyRequests) => e.has429}

ServiceInit ==
  /\ assets = <<>>
  /\ keyGen = 0
  /\ now = 0
  /\ storeRet = Ret("none", "", 0, FALSE, "none", <<>>)
  /\ added = {}
  /\ deleted = {}
  /\ boot = Booted
  /\ svcCall = NoCall
  /\ UiInit

\* a catch block hands a raw failure to handleApiError
CallHandleApiError ==
  /\ \E e \in RawFailureInputs :
       svcCall' = [fn |-> "handleApiError", input |-> e, thrown |-> handleApiError(e)]
  /\ UNCHANGED <<storeVars, now, boot, uiVars>>

\* the provider answers generateAssetFromImage
CallGenerateAssetFromImage ==
  /\ \E resp \in Responses :
       svcCall' = [fn |-> "generateAssetFromImage", input |-> resp,
                   out |-> generateAssetFromImage(resp)]
  /\ UNCHANGED <<storeVars, now, boot, uiVars>>

\* the provider answers a structured-text function
CallStructured ==
  /\ \E fn \in StructuredFns, text \in StructuredTexts :
       svcCall' = [fn |-> fn, input |-> text, out |-> StructuredResult(fn, text)]
  /\ UNCHANGED <<storeVars, now, boot, uiVars>>

\* synthesizeCharacterFromParts composes its request
CallSynthesize ==
  /\ \E parts \in PartsInputs :
       svcCall' = [fn |-> "synthesizeCharacterFromParts", input |-> parts,
                   out |-> synthesizeCharacterFromParts(parts)]
  /\ UNCHANGED <<storeVars, now, boot, uiVars>>

\* the references of a synthesis call that parseDataUrl accepts, in the
\* order head, pose, clothes
UsableInOrder(parts) ==
  (IF parts["head"] = "usable" THEN <<ImagePart("head")>> ELSE <<>>)
  \o (IF parts["pose"] = "usable" THEN <<ImagePart("pose")>> ELSE <<>>)
  \o (IF parts["clothes"] = "usable" THEN <<ImagePart("clothes")>> ELSE <<>>)

\* the records of a list whose image parseDataUrl accepts, in list order
UsableAssets(list) ==
  LET F[k \in 0 .. Len(list)] ==
        IF k = 0 THEN <<>>
        ELSE IF list[k].ref = "usable"
             THEN Append(F[k - 1], ImagePart(list[k].id))
             ELSE F[k - 1]
  IN  F[Len(list)]

\* lists of at most MaxRefs records
AssetLists ==
  UNION {[1 .. n -> ConceptAssets] : n \in 0 .. MaxRefs}

\* a transform-image function composes the parts of its request
CallComposeParts ==
  /\ \/ \E main \in {"usable", "unusable"} :
          svcCall' = [fn |-> "parts", of |-> "generateAssetFromImage",
                      images |-> IF main = "usable" THEN <<ImagePart("main")>> ELSE <<>>,
                      out |-> generateAssetFromImageParts(main)]
     \/ \E main \in {"usable", "unusable"}, reference \in RefStates :
          svcCall' = [fn |-> "parts", of |-> "optimizeCharacterImage",
                      images |-> (IF main = "usable" THEN <<ImagePart("main")>> ELSE <<>>)
                                 \o (IF reference = "usable"
                                     THEN <<ImagePart("reference")>> ELSE <<>>),
                      out |-> optimizeCharacterImageParts(main, reference)]
     \/ \E parts \in PartsInputs :
          svcCall' = [fn |-> "parts", of |-> "synthesizeCharacterFromParts",
                      images |-> UsableInOrder(parts),
                      out |-> synthesizeCharacterFromPartsParts(parts)]
     \/ \E list \in AssetLists :
          svcCall' = [fn |-> "parts", of |-> "generateConceptArtFromAssets",
                      images |-> UsableAssets(list),
                      out |-> generateConceptArtFromAssetsParts(list)]
  /\ UNCHANGED <<storeVars, now, boot, uiVars>>

\* a function with a pixel contract composes its request
CallComposeContract ==
  /\ \E category \in ContractCategories, text \in UserTexts :
       svcCall' = [fn |-> "contract", of |-> category, input |-> text,
                   out |-> ComposeFor(category, text)]
  /\ UNCHANGED <<storeVars, now, boot, uiVars>>

ServiceNext ==
  \/ CallHandleApiError
  \/ CallGenerateAssetFromImage
  \/ CallStructured
  \/ CallSynthesize
  \/ CallComposeParts
  \/ CallComposeContract

ServiceSpec == ServiceInit /\ [][ServiceNext]_vars

(***************************************************************************)
(* The synthesis mode of the character tab on its own.                     *)
(***************************************************************************)
\* handlePartFileChange / onRemove: a reference slot is filled or cleared
SetReference(aspect) ==
  /\ pc["synthesize"] = "idle"
  /\ \E ref \in RefStates :
       /\ ref # cg.refs[aspect]
       /\ cg' = [cg EXCEPT !.refs[aspect] = ref]
  /\ uiEvent' = "none"
  /\ UNCHANGED <<isApiLocked, pc, calls, local, ga, app, storeVars, now, boot, svcCall>>

SynthNext ==
  \/ \E aspect \in {"head", "pose", "clothes"} : SetReference(aspect)
  \/ Trigger("synthesize")
  \/ ServiceThrew("synthesize")
  \/ ProviderReturned("synthesize")
  \/ ProviderFailed("synthesize")
  \/ StoreReturned("synthesize")
  \/ SaveApiKey

SynthSpec == Init /\ [][SynthNext]_vars

(***************************************************************************)
(* The archive of GameAssembler (handleDownload).  A file of the archive   *)
(* is its folder, its name (a fixed or generated base, the id formatted    *)
(* into it, the extension) and its content; a later zip.file() of the same *)
(* folder and name replaces the earlier one.                               *)
(***************************************************************************)
\* a name: `${base}${id}.${ext}`, or a fixed name (id 0 stands for none)
Name(base, id, ext) == [base |-> base, id |-> id, ext |-> ext]

NoName == Name("", 0, "")

File(folder, name, body, ref) ==
  [folder |-> folder, name |-> name, content |-> [body |-> body, ref |-> ref]]

\* `${asset?.id || '1'}`: the id, or 1 for an unbound slot or a falsy id
IdOrOne(rec) == IF rec = NoRecord \/ IsFalsy(rec.id) THEN 1 ELSE rec.id

\* a mutant of GeneratedName: the name carries the time of the download
GeneratedNameStamped(base, rec) == Name(base, now, "")

\* heroActorName, villainEnemyName, itemIconName
GeneratedName(base, rec) == Name(base, IdOrOne(rec), "")

heroActorName(sel) == GeneratedName("AI_Hero_", sel["hero"])

villainEnemyName(sel) == GeneratedName("AI_Villain_", sel["villain"])

itemIconName(sel) == GeneratedName("AI_Icon_", sel["keyItem"])

\* the README, game_plan.json and the three files of data/
DataFiles(blueprint, sel) ==
  { File("", Name("README", 0, "md"), "readme", NoName),
    File("", Name("game_plan", 0, "json"), blueprint, NoName),
    File("data", Name("Actors", 0, "json"), blueprint, heroActorName(sel)),
    File("data", Name("Enemies", 0, "json"), blueprint, villainEnemyName(sel)),
    File("data", Name("Items", 0, "json"), blueprint, NoName) }

\* a mutant of FolderOf: every image goes to pictures
FolderOfPictures(type) == "pictures"

\* the folderName of the switch over asset.type
FolderOf(type) ==
  CASE type = "character" -> "characters"
    [] type = "monster" -> "sv_actors"
    [] type \in {"item", "equipment"} -> "icons"
    [] OTHER -> "pictures"

\* a mutant of FileNameOf: the file is named after the record's own id
FileNameOfRecord(asset, sel) ==
  CASE asset.type = "character" -> Name("AI_Hero_", asset.id, "")
    [] asset.type = "monster" -> Name("AI_Villain_", asset.id, "")
    [] asset.type \in {"item", "equipment"} -> Name("AI_Icon_", asset.id, "")
    [] OTHER -> Name("AI_Asset_", asset.id, "")

\* the fileName of the switch over asset.type, without its extension
FileNameOf(asset, sel) ==
  CASE asset.type = "character" -> heroActorName(sel)
    [] asset.type = "monster" -> villainEnemyName(sel)
    [] asset.type \in {"item", "equipment"} -> itemIconName(sel)
    [] OTHER -> Name("AI_Asset_", asset.id, "")

\* the loop over Object.values(selectedAssets): one PNG per bound record
\* that has image data
ImageFiles(sel) ==
  { File("img/" \o FolderOf(sel[slot].type),
         [FileNameOf(sel[slot], sel) EXCEPT !.ext = "png"],
         sel[slot].imageDataUrl, NoName) :
      slot \in {k \in DOMAIN sel : sel[k] # NoRecord /\ sel[k].imageDataUrl # ""} }

\* handleDownload: nothing without a plan, else the files handed to the zip
handleDownload(blueprint, sel) ==
  IF blueprint = Null THEN [produced |-> FALSE, files |-> {}]
  ELSE [produced |-> TRUE, files |-> DataFiles(blueprint, sel) \cup ImageFiles(sel)]

\* the design documents found in stored plans
StoredPlans == {"planStored"}

\* what a slot of a stored plan's selectedAssets can hold: nothing, a record
\* of the slot's type, or such a record written without an id
SavedChoices(slot) ==
  {NoRecord}
  \cup {r \in Range(SeedAssets) : r.type = ASSET_SLOT_CONFIG[slot]}
  \cup {[r EXCEPT !.id = NoId] : r \in {q \in Range(SeedAssets) :
                                          q.type = ASSET_SLOT_CONFIG[slot]}}

\* what JSON.parse(item.imageDataUrl) can give for a stored plan: the text
\* was written in this or an earlier session, and the handler allows for a
\* text without selectedAssets (`savedData.selectedAssets || {}`)
SavedData ==
  {d \in [selectedAssets : [AssetSlots -> UNION {SavedChoices(k) : k \in AssetSlots}],
          gameBlueprint : StoredPlans] :
     \A slot \in AssetSlots : d.selectedAssets[slot] \in SavedChoices(slot)}

\* handleSelectHistoryItem
SelectHistoryItem ==
  /\ ~isApiLocked
  /\ ga.history # <<>>
  /\ \/ \E d \in SavedData :
          ga' = [ga EXCEPT !.selectedAssets = d.selectedAssets,
                           !.gameBlueprint = d.gameBlueprint,
                           !.error = Null]
     \/ ga' = [ga EXCEPT !.error = "historyLoadFailed"]
  /\ uiEvent' = "none"
  /\ UNCHANGED <<isApiLocked, pc, calls, local, cg, app, storeVars, now, boot, svcCall>>

\* the button that discards the plan: setGameBlueprint(null)
DiscardPlan ==
  /\ ~isApiLocked
  /\ ga.gameBlueprint # Null
  /\ ga' = [ga EXCEPT !.gameBlueprint = Null]
  /\ uiEvent' = "none"
  /\ UNCHANGED <<isApiLocked, pc, calls, local, cg, app, storeVars, now, boot, svcCall>>

\* the inputs of a download
DownloadInput == [blueprint |-> ga.gameBlueprint, sel |-> ga.selectedAssets]

\* the download button, shown while a plan exists.  Beside the call are
\* kept whether the call before it had the same inputs and whether it
\* produced the same files
Download ==
  /\ ~isApiLocked
  /\ ga.gameBlueprint # Null
  /\ LET out == handleDownload(ga.gameBlueprint, ga.selectedAssets)
         again == svcCall.fn = "handleDownload" /\ svcCall.input = DownloadInput
     IN  svcCall' = [fn |-> "handleDownload",
                     input |-> DownloadInput,
                     out |-> out,
                     again |-> again,
                     agrees |-> again /\ svcCall.out = out]
  /\ uiEvent' = "none"
  /\ UNCHANGED <<isApiLocked, pc, calls, local, cg, ga, app, storeVars, now, boot>>

\* a plan persisted in an earlier session, after the seeded assets
SeedPlan == Record(SeedKey + 1, "game-plan", "quest", "planA", 0)

\* the application with that plan in its store
ArchiveInit ==
  /\ assets = Append(SeedAssets, SeedPlan)
  /\ keyGen = SeedKey + 1
  /\ now = 0
  /\ storeRet = Ret("none", "", 0, FALSE, "none", <<>>)
  /\ added = Range(SeedAssets) \cup {SeedPlan}
  /\ deleted = {}
  /\ boot = Booted
  /\ svcCall = NoCall
  /\ UiInit

ArchiveNext ==
  \/ \E slot \in AssetSlots : SelectAsset(slot)
  \/ SelectHistoryItem
  \/ DiscardPlan
  \/ Download
  \/ Tick

ArchiveSpec == ArchiveInit /\ [][ArchiveNext]_vars

(***************************************************************************)
(* Flash of Inspiration beside the generation and the deletion of          *)
(* characters.                                                             *)
(***************************************************************************)
FlashNext ==
  \/ Trigger("generateBase")
  \/ ServiceThrew("generateBase")
  \/ ProviderReturned("generateBase")
  \/ ProviderFailed("generateBase")
  \/ StoreReturned("generateBase")
  \/ FlashTrigger
  \/ FlashListed
  \/ FlashSettled
  \/ DeleteCharacter
  \/ SaveApiKey

FlashSpec == Init /\ [][FlashNext]_vars

(***************************************************************************)
(* The two adjust actions on artifacts taken from the history.             *)
(***************************************************************************)
\* a character and a plan persisted in an earlier session; the keys up to
\* SeedKey have been issued, the last to a record deleted since
StoredArtifacts ==
  << Record(1, "character", "knight", "imgStored", -2),
     Record(2, "game-plan", "quest", "planStored", -1) >>

AdjustInit ==
  /\ assets = StoredArtifacts
  /\ keyGen = SeedKey
  /\ now = 0
  /\ storeRet = Ret("none", "", 0, FALSE, "none", <<>>)
  /\ added = Range(StoredArtifacts)
  /\ deleted = {}
  /\ boot = Booted
  /\ svcCall = NoCall
  /\ UiInit

\* handleSelectHistoryItem of CharacterGenerator
SelectCharacterHistoryItem ==
  /\ ~isApiLocked
  /\ \E item \in Range(cg.history) :
       cg' = [cg EXCEPT !.baseImage = item.imageDataUrl,
                        !.walkingSprite = [image |-> Null, isLoading |-> FALSE,
                                           error |-> Null],
                        !.baseError = Null]
  /\ uiEvent' = "none"
  /\ UNCHANGED <<isApiLocked, pc, calls, local, ga, app, storeVars, now, boot, svcCall>>

AdjustHandlers == {"adjustBase", "adjustPlan"}

AdjustNext ==
  \/ SelectCharacterHistoryItem
  \/ SelectHistoryItem
  \/ \E h \in AdjustHandlers : Trigger(h)
  \/ \E h \in AdjustHandlers : ServiceThrew(h)
  \/ \E h \in AdjustHandlers : ProviderReturned(h)
  \/ \E h \in AdjustHandlers : ProviderFailed(h)
  \/ \E h \in AdjustHandlers : StoreReturned(h)
  \/ SaveApiKey

AdjustSpec == AdjustInit /\ [][AdjustNext]_vars

(***************************************************************************)
(* Claims about the gate.                                                  *)
(***************************************************************************)
\* the handlers whose provider call is in flight
InFlight == {h \in Handlers : pc[h] = "calling"}

\* the handlers between their lockApi() and their unlockApi()
Holders == {h \in GatedHandlers \cup SynthHandlers : pc[h] # "idle"}

\* the part of mutual exclusion the code keeps: among the handlers that use
\* the gate at most one runs, and the gate is set exactly while one runs
GatedMutex ==
  /\ Cardinality(Holders) <= 1
  /\ isApiLocked <=> Holders # {}

\* C1: whatever the user triggers and in whatever order the answers arrive,
\* at most one provider call is in flight at any time.
C1_AtMostOneInFlight == Cardinality(InFlight) <= 1

\* C2: whenever a provider call is in flight, the gate is set and the
\* handler that issued the call is the one holding it.
C2_CallerHoldsGate == \A h \in InFlight : isApiLocked /\ h \in Holders

\* C3: every step in which a handler that took the gate leaves (its service
\* call returned, failed or threw, or its store write failed) ends with the
\* gate free.
C3_ReleasedOnEveryExit ==
  [][\A h \in GatedHandlers : (pc[h] # "idle" /\ pc'[h] = "idle") => ~isApiLocked']_vars

\* a store write failed, its handler left, and a later handler took the gate
C3_Witness ==
  /\ cg.baseError = "unknownError"
  /\ uiEvent = "admitted"
  /\ pc["generateAsset"] # "idle"

\* C4: a trigger never waits: it is admitted only when the gate is free, and
\* then sets it; a trigger whose own conditions hold is refused exactly when
\* the gate is set, and then changes neither the gate nor any handler.
C4_GateSemantics ==
  [][/\ uiEvent' = "admitted" => ~isApiLocked /\ isApiLocked'
     /\ uiEvent' = "busy" => isApiLocked /\ isApiLocked' /\ pc' = pc
     /\ \A h \in GatedHandlers :
          (pc[h] = "idle" /\ pc'[h] # "idle") => uiEvent' = "admitted"]_vars

\* a run ended and released the gate, a later trigger took it, and a third
\* trigger was refused
C4_Witness == uiEvent = "busy" /\ cg.baseImage # Null /\ cg.walkingSprite.isLoading

\* C5: a trigger refused because the gate is set starts no call, writes no
\* record, shows no error and leaves every other part of the state as it was.
C5_RefusedTriggerChangesNothing ==
  [][uiEvent' = "busy" =>
       UNCHANGED <<isApiLocked, pc, calls, local, cg, ga, app,
                   assets, keyGen, added, deleted>>]_vars

\* a trigger was refused while another handler's call is in flight
C5_Witness == uiEvent = "busy" /\ pc["generateBase"] = "calling"

IsListing == storeRet.op \in {"list", "listAll"} /\ ~storeRet.fault

\* the records a listing has to return
Listed(type) == {r \in Range(assets) : type = "" \/ r.type = type}

SortedDesc(s) == \A i, j \in 1 .. Len(s) : i < j => s[i].timestamp >= s[j].timestamp

NoDuplicates(s) == \A i, j \in 1 .. Len(s) : i # j => s[i] # s[j]

\* the part of the ordering claim the code keeps: the listing holds exactly
\* the stored records of the category, by descending timestamp
ListExactAndSorted ==
  IsListing =>
    /\ Range(storeRet.list) = Listed(storeRet.type)
    /\ NoDuplicates(storeRet.list)
    /\ SortedDesc(storeRet.list)

\* C7: every listing holds exactly the stored records of the category (all
\* records for listAll), ordered by descending timestamp, and its first
\* record is the one added last, whatever timestamps the clock assigned.
C7_NewestAddedFirst ==
  IsListing =>
    /\ Range(storeRet.list) = Listed(storeRet.type)
    /\ NoDuplicates(storeRet.list)
    /\ SortedDesc(storeRet.list)
    /\ storeRet.list # <<>> =>
         \A r \in Listed(storeRet.type) : storeRet.list[1].id >= r.id

\* C8: once deleteAsset(k) resolved for an issued id k, no listing holds a
\* record with id k, and a listing still holds every other record that was
\* added, with the content it was added with.
C8_DeletedNeverListed ==
  IsListing =>
    Range(storeRet.list) =
      {r \in added : r.id \notin deleted
                       /\ (storeRet.type = "" \/ r.type = storeRet.type)}

\* a listing made after a delete, with a record left and a record gone
C8_Witness ==
  /\ IsListing
  /\ storeRet.list # <<>>
  /\ \E r \in added : r.id \in deleted /\ r.type = storeRet.list[1].type

\* C9: an add the engine does not fail succeeds, also when a record with
\* the same content is stored, and returns an id greater than every id
\* issued before, deleted ones included.
C9_FreshIds ==
  [][(storeRet'.op = "add" /\ ~storeRet'.fault /\ storeRet' # storeRet) =>
       /\ storeRet'.err = "none"
       /\ \A r \in added : storeRet'.id > r.id
       /\ Len(assets') = Len(assets) + 1
       /\ assets'[Len(assets')].id = storeRet'.id]_vars

\* an add answered after a delete, while a record of the same content is held
C9_Witness ==
  /\ storeRet.op = "add" /\ ~storeRet.fault
  /\ deleted # {}
  /\ \E i, j \in 1 .. Len(assets) :
       /\ i < j /\ assets[j].id = storeRet.id
       /\ assets[i].type = assets[j].type
       /\ assets[i].prompt = assets[j].prompt
       /\ assets[i].imageDataUrl = assets[j].imageDataUrl

\* C10: deleteAsset with an id that no stored record has, or with no valid
\* id, leaves the store as it is and reports no error (the engine failing
\* the request aside).
C10_DeleteAbsentIsNoOp ==
  [][(storeRet'.op = "delete" /\ storeRet' # storeRet
        /\ storeRet'.id \notin Ids(assets)) =>
       /\ assets' = assets
       /\ storeRet'.err # "none" => storeRet'.fault]_vars

\* deleteAsset answered for an absent id and for no id, records being held
C10_Witness ==
  /\ storeRet.op = "delete" /\ storeRet.err = "none"
  /\ storeRet.id \in {NoId, keyGen + 1}
  /\ assets # <<>>

\* C11: a stored record is never changed: every record a listing returns or
\* the store holds is as it was added, a record whose id stays in the
\* store stays the same, records appear only when an add was served and
\* disappear only when a delete was.
C11_NeverUpdatedInPlace ==
  [][/\ IsListing' => Range(storeRet'.list) \subseteq added'
     /\ Range(assets') \subseteq added'
     /\ Range(cg'.history) \cup Range(ga'.history) \subseteq added'
     /\ \A r \in Range(assets) : r.id \in Ids(assets') => r \in Range(assets')
     /\ ~(Range(assets') \subseteq Range(assets)) => keyGen' > keyGen
     /\ ~(Range(assets) \subseteq Range(assets')) => deleted' # deleted]_vars

\* a listing returns a record from an earlier clock value after a later
\* record of the same type was added
C11_Witness ==
  /\ IsListing
  /\ \E i \in 1 .. Len(storeRet.list) :
       /\ storeRet.list[i].timestamp < now
       /\ \E r \in Range(assets) :
            /\ r.id > storeRet.list[i].id
            /\ r.type = storeRet.list[i].type
            /\ r.timestamp = now

(***************************************************************************)
(* Claims about saving results.                                            *)
(***************************************************************************)
\* the error a handler's component shows, in the states c, g and a of
\* CharacterGenerator, GameAssembler and App
ErrorOf(h, c, g, a) ==
  CASE h \in {"generateBase", "adjustBase"} -> c.baseError
    [] h = "generateAsset" -> c.walkingSprite.error
    [] h \in {"generatePlan", "adjustPlan"} -> g.error
    [] h = "flash" -> a.gameGenerationError

\* C12: no handler leaves straight from its provider call unless the call
\* failed: a call that returned a result is followed by the add that saves
\* the result.
C12_EverySuccessSaved ==
  [][\A h \in Handlers :
       (pc[h] = "calling" /\ pc'[h] = "idle") => ErrorOf(h, cg', ga', app') # Null]_vars

(***************************************************************************)
(* Claims about startup.                                                   *)
(***************************************************************************)
\* the part of the startup failure the code keeps: the failure is shown once,
\* in place of the application, and the page shown never changes again
FatalPageIsFinal == [][boot.page # "none" => boot'.page = boot.page]_vars

KindOf ==
  [rateLimitError |-> "RateLimited",
   imagenBilledOnlyError |-> "BillingRequired",
   geminiApiError |-> "Unknown",
   unknownGenerationError |-> "Unknown",
   apiKeyNotSet |-> "InvalidInput"]

Classified == svcCall.fn = "handleApiError"

\* the rate-limit rule applies to the failure: its envelope's code or its own
\* status is 429, or its message has the resource-exhaustion marker
RateLimitShaped(e) ==
  \/ e.body = "envelope" /\ e.code = TooManyRequests
  \/ e.status = TooManyRequests
  \/ e.hasExhausted

C16_UnknownCarriesEnvelopeMessage ==
  (/\ Classified
   /\ svcCall.input.isError
   /\ svcCall.input.body = "envelope"
   /\ svcCall.input.envMsg # ""
   /\ ~svcCall.input.keyMsg
   /\ ~svcCall.input.billedMsg
   /\ ~RateLimitShaped(svcCall.input)
   /\ ~svcCall.input.has429) =>
    /\ KindOf[svcCall.thrown.key] = "Unknown"
    /\ svcCall.thrown.detail = "envelopeMessage"

(***************************************************************************)
(* Claims about the service functions.                                     *)
(***************************************************************************)
\* the message keys that stand for invalid input
InvalidInputKeys == {"invalidBase64Data", "atLeastOneRefImage", "invalidJson"}

\* C17: when a transform response has no image and its finish reason is
\* SAFETY, the error the caller receives is the safety rejection itself,
\* listing the ratings the response flags.
C17_SafetyRejectionDelivered ==
  (/\ svcCall.fn = "generateAssetFromImage"
   /\ ~svcCall.input.hasImage
   /\ svcCall.input.finishReason = "SAFETY") =>
    /\ ~svcCall.out.returned
    /\ svcCall.out.inner.key = "safetyRejection"
    /\ svcCall.out.inner.ratings = FlaggedRatings(svcCall.input)
    /\ svcCall.out.thrown.key = "safetyRejection"

\* C18: every structured-text function parses the text the provider
\* returned, and text that is no valid JSON reaches the caller as an
\* invalid-input error.
C18_InvalidJsonIsInvalidInput ==
  (svcCall.fn \in StructuredFns /\ svcCall.input = "invalidJson") =>
    /\ ~svcCall.out.returned
    /\ svcCall.out.thrown.key \in InvalidInputKeys

\* the part of the composition claim the code keeps: when every reference
\* given is a data URL parseDataUrl accepts, the k-th statement is about
\* image k and names the aspect of the k-th image attached
StatementsMatchUsableImages ==
  (/\ svcCall.fn = "synthesizeCharacterFromParts"
   /\ svcCall.out.composed
   /\ \A a \in DOMAIN svcCall.input : svcCall.input[a] # "unusable") =>
    /\ Len(svcCall.out.statements) = Len(svcCall.out.images)
    /\ \A k \in 1 .. Len(svcCall.out.images) :
         svcCall.out.statements[k] = [image |-> k, aspect |-> svcCall.out.images[k]]

\* C20: whatever references are given, the composed request has one role
\* statement per attached image, the k-th statement naming the aspect of the
\* k-th attached image, and tells to invent what no image is given for.
C20_OneStatementPerImage ==
  (svcCall.fn = "synthesizeCharacterFromParts" /\ svcCall.out.composed) =>
    /\ Len(svcCall.out.statements) = Len(svcCall.out.images)
    /\ \A k \in 1 .. Len(svcCall.out.images) :
         svcCall.out.statements[k] = [image |-> k, aspect |-> svcCall.out.images[k]]
    /\ svcCall.out.inventMissing

(***************************************************************************)
(* Claims about synthesis.                                                 *)
(***************************************************************************)
\* synthesizeCharacterFromParts threw because it could attach no image, and
\* the handler has not yet caught the error
CompositionFailed ==
  pc["synthesize"] = "threw" /\ local["synthesize"] = "atLeastOneRefImage"

\* the part of the claim the code keeps: a request that cannot be composed
\* is given up before any provider call
NoCallWithoutUsableImage == CompositionFailed => calls["synthesize"] = 0

\* C19: when a synthesis request cannot be composed because no reference
\* image is usable, no provider call has been made and the gate is not set.
C19_CompositionFailsOutsideGate ==
  CompositionFailed => (calls["synthesize"] = 0 /\ ~isApiLocked)

(***************************************************************************)
(* Claims about the composed requests.                                     *)
(***************************************************************************)
\* a transform-image function composed the parts of a request
PartsComposed == svcCall.fn = "parts" /\ svcCall.out.composed

\* the image parts of a sequence of parts, in their order
ImagesOf(parts) ==
  LET F[k \in 0 .. Len(parts)] ==
        IF k = 0 THEN <<>>
        ELSE IF parts[k].kind = "image" THEN Append(F[k - 1], parts[k])
             ELSE F[k - 1]
  IN  F[Len(parts)]

\* the part of the ordering claim the code keeps: the images of a request
\* are the usable references in their role order, and there is exactly one
\* text part
ImagesKeepRoleOrder ==
  PartsComposed =>
    /\ ImagesOf(svcCall.out.parts) = svcCall.images
    /\ Len(svcCall.out.parts) = Len(svcCall.images) + 1

\* C21: in every transform-image request the parts are the reference images
\* in their role order followed by the instruction text, which is last.
C21_ImagesThenText ==
  PartsComposed => svcCall.out.parts = svcCall.images \o <<TextPart>>

(***************************************************************************)
(* Claims about the archive.                                               *)
(***************************************************************************)
\* handleDownload has run and handed files to the zip
Downloaded == svcCall.fn = "handleDownload" /\ svcCall.out.produced

\* the slots bound to a record when handleDownload ran
BoundSlots == {slot \in AssetSlots : svcCall.input.sel[slot] # NoRecord}

\* the files of the archive under img/
ImageFilesOf(files) == {f \in files : f.folder \notin {"", "data"}}

\* the documented table: the sub-directory and the name prefix of a category
CategoryFolder(type) ==
  IF type = "character" THEN "img/characters"
  ELSE IF type = "monster" THEN "img/sv_actors"
  ELSE IF type \in {"item", "equipment"} THEN "img/icons"
  ELSE "img/pictures"

CategoryPrefix(type) ==
  IF type = "character" THEN "AI_Hero_"
  ELSE IF type = "monster" THEN "AI_Villain_"
  ELSE IF type \in {"item", "equipment"} THEN "AI_Icon_"
  ELSE "AI_Asset_"

ReferredBy(dataName) ==
  {f.content.ref : f \in {g \in svcCall.out.files :
                            g.folder = "data" /\ g.name.base = dataName}}

\* the base names of the PNGs of a sub-directory
PngsIn(folder) ==
  {[f.name EXCEPT !.ext = ""] : f \in {g \in svcCall.out.files : g.folder = folder}}

HasAllThree ==
  \A type \in {"character", "monster", "item"} : \E r \in Range(assets) : r.type = type

\* a step in which Flash of Inspiration was clicked
FlashClicked == pc["flash"] = "idle" /\ uiEvent' = "ungated"

\* a step in which the handler, having listed the assets, goes on or returns
FlashDecided == pc["flash"] = "listing" /\ pc'["flash"] # "listing"

\* the handler ended in this step without a call and without a preview
FlashGaveUp ==
  /\ pc'["flash"] = "idle"
  /\ calls'["flash"] = 0
  /\ ~app'.isGeneratingGame
  /\ app'.isGamePreviewOpen = app.isGamePreviewOpen

DocumentedContract(category) ==
  CASE category = "walking" ->
         {<<"grid", "3x4">>, <<"frame", "48x48">>, <<"total", "144x192">>,
          <<"transparent", "yes">>}
    [] category = "faceset" -> {<<"total", "144x144">>, <<"transparent", "yes">>}
    [] category = "combatEffect" ->
         {<<"frames", "5">>, <<"frame", "192x192">>, <<"layout", "one row">>,
          <<"total", "960x192">>, <<"transparent", "yes">>}
    [] category = "conceptArt" -> {<<"aspect", "16:9">>}

\* what the template's sentences of a request fix
ContractOf(request) ==
  {<<request.prompt[k].field, request.prompt[k].value>> :
     k \in {j \in 1 .. Len(request.prompt) : request.prompt[j].kind = "template"}}

\* the user's text as it stands in a request, if it has a place there
UserTextOf(request) ==
  {request.prompt[k].value :
     k \in {j \in 1 .. Len(request.prompt) : request.prompt[j].kind = "user"}}

\* C26: whatever the user's text, the request of a category with a pixel
\* contract carries that category's documented contract and nothing else
\* for those fields; concept art also sets the 16:9 ratio in its config.
C26_ContractFixedPerCategory ==
  svcCall.fn = "contract" =>
    /\ ContractOf(svcCall.out) = DocumentedContract(svcCall.of)
    /\ svcCall.of = "conceptArt" => svcCall.out.aspectRatio = "16:9"
    /\ UserTextOf(svcCall.out) \subseteq {svcCall.input}

\* a combat effect was composed for a text that asks for another frame size
C26_Witness ==
  /\ svcCall.fn = "contract"
  /\ svcCall.of = "combatEffect"
  /\ svcCall.input = "make every frame 64x64"
  /\ UserTextOf(svcCall.out) = {svcCall.input}

(***************************************************************************)
(* Claims about the store beside the gate.                                 *)
(***************************************************************************)
\* the part of the independence claim the code keeps: a listing issued
\* while the gate is held (that of Flash of Inspiration) is answered
ListingNotBlocked ==
  (isApiLocked /\ pc["flash"] = "listing") => ENABLED FlashListed

\* C27: while the gate is held, a record the history shows can be deleted.
C27_DeleteNotBlocked ==
  (isApiLocked /\ cg.history # <<>>) => ENABLED DeleteCharacter

(***************************************************************************)
(* Claims about the adjust actions.                                        *)
(***************************************************************************)
\* the artifact a component displays for an adjust handler
Displayed(h) == IF h = "adjustBase" THEN cg.baseImage ELSE ga.gameBlueprint

\* the artifacts of a handler's kind that the store holds
Stored(h) == {r.imageDataUrl : r \in {q \in Range(assets) : q.type = SavedType(h)}}

\* the part of the claim the code keeps: an adjust action that ends with a
\* failure leaves no new record in the store
FailedAdjustAddsNothing ==
  [][\A h \in AdjustHandlers :
       (pc[h] # "idle" /\ pc'[h] = "idle" /\ ErrorOf(h, cg', ga', app') # Null)
         => assets' = assets]_vars

\* C29: after an adjust action that ended with a failure the artifact
\* displayed is still the one displayed before it.  Every artifact
\* displayed before an adjust action here was taken from the history or
\* saved by an earlier adjust, so it is one the store holds.
C29_FailedAdjustKeepsArtifact ==
  \A h \in AdjustHandlers :
    (pc[h] = "idle" /\ ErrorOf(h, cg, ga, app) # Null /\ Displayed(h) # Null)
      => Displayed(h) \in Stored(h)

====
